---- MODULE Spec2Model ----
(***************************************************************************)
(* Ecolink corridor service (src/Ecolink/app.py): load_graph folds the     *)
(* rows of the dataset into the shared graph G; every /get_corridor query  *)
(* resolves its two names against G, recomputes the Kruskal forest of G    *)
(* with a private union-find, and answers with the path inside the forest. *)
(*                                                                         *)
(* A name is a sequence of one-character strings, so that str.lower() and  *)
(* difflib's similarity ratio are computed and not assumed.                *)
(***************************************************************************)
EXTENDS Integers, Sequences, FiniteSets, TLC

VARIABLES phase, rows, G, pc, src_input, dst_input, src, dst,
          parent, rank, edges, idx, T, resp

vars == <<phase, rows, G, pc, src_input, dst_input, src, dst,
          parent, rank, edges, idx, T, resp>>

(***************************************************************************)
(* Bounds of the model.                                                    *)
(***************************************************************************)
MaxRows == 3
MaxGraphRows == 3
MaxConcRows == 2
MaxResolveRows == 2
MaxForestRows == 4

\* Python's None (request.args.get of an absent parameter, a failed resolution)
None == <<"None">>

\* The worker threads of the server, each handling one request at a time.
Queries == {"q1", "q2"}

(***************************************************************************)
(* Strings                                                                 *)
(***************************************************************************)
Alphabet == <<"A", "B", "C", "D", "a", "b", "c", "d", "x">>

\* code-point order of the characters in use (upper case before lower case)
Ord(ch) == CHOOSE i \in 1..Len(Alphabet) : Alphabet[i] = ch

LowerChar(ch) ==
    CASE ch = "A" -> "a"
      [] ch = "B" -> "b"
      [] ch = "C" -> "c"
      [] ch = "D" -> "d"
      [] OTHER -> ch

\* str.lower()
Lower(s) == [i \in 1..Len(s) |-> LowerChar(s[i])]

\* s < t for Python strings
RECURSIVE StrLess(_, _)
StrLess(s, t) ==
    IF t = <<>> THEN FALSE
    ELSE IF s = <<>> THEN TRUE
    ELSE IF Head(s) # Head(t) THEN Ord(Head(s)) < Ord(Head(t))
    ELSE StrLess(Tail(s), Tail(t))

(***************************************************************************)
(* difflib.SequenceMatcher(a, b).ratio() = 2 * M / (len(a) + len(b)), M    *)
(* the characters in the matching blocks: the longest common block (the    *)
(* earliest in a, then the earliest in b), then the same to its left and   *)
(* to its right.                                                           *)
(***************************************************************************)
BlockAt(a, b, i, j, k) == \A d \in 0..(k - 1) : a[i + d] = b[j + d]

\* the blocks of length k inside a[alo..ahi-1] x b[blo..bhi-1] (1-based, hi exclusive)
Blocks(a, b, alo, ahi, blo, bhi, k) ==
    {ij \in (alo..(ahi - k)) \X (blo..(bhi - k)) : BlockAt(a, b, ij[1], ij[2], k)}

RECURSIVE LongestLen(_, _, _, _, _, _, _)
LongestLen(a, b, alo, ahi, blo, bhi, k) ==
    IF k = 0 THEN 0
    ELSE IF Blocks(a, b, alo, ahi, blo, bhi, k) # {} THEN k
    ELSE LongestLen(a, b, alo, ahi, blo, bhi, k - 1)

Min2(x, y) == IF x < y THEN x ELSE y

RECURSIVE Matching(_, _, _, _, _, _)
Matching(a, b, alo, ahi, blo, bhi) ==
    IF alo >= ahi \/ blo >= bhi THEN 0
    ELSE LET k == LongestLen(a, b, alo, ahi, blo, bhi, Min2(ahi - alo, bhi - blo))
         IN IF k = 0 THEN 0
            ELSE LET bs == Blocks(a, b, alo, ahi, blo, bhi, k)
                     i  == CHOOSE i \in {ij[1] : ij \in bs} :
                              \A ij \in bs : i <= ij[1]
                     j  == CHOOSE j \in {ij[2] : ij \in {x \in bs : x[1] = i}} :
                              \A ij \in {x \in bs : x[1] = i} : j <= ij[2]
                 IN k + Matching(a, b, alo, i, blo, j)
                      + Matching(a, b, i + k, ahi, j + k, bhi)

MatchCount(a, b) == Matching(a, b, 1, Len(a) + 1, 1, Len(b) + 1)

\* ratio() >= cutoff with cutoff = 0.8, in integers: 2*M/T >= 8/10
CutoffNum == 8
CutoffDen == 10
Close(a, b) ==
    /\ Len(a) + Len(b) > 0
    /\ 2 * MatchCount(a, b) * CutoffDen >= CutoffNum * (Len(a) + Len(b))

\* (score1, x1) < (score2, x2) for the (ratio, string) pairs get_close_matches ranks
ScoreLess(x1, x2, word) ==
    LET m1 == MatchCount(x1, word)  t1 == Len(x1) + Len(word)
        m2 == MatchCount(x2, word)  t2 == Len(x2) + Len(word)
    IN \/ m1 * t2 < m2 * t1
       \/ m1 * t2 = m2 * t1 /\ StrLess(x1, x2)

\* difflib.get_close_matches(word, possibilities, n=1, cutoff=0.8): [] or [best]
GetCloseMatches(word, possibilities) ==
    LET cand == {x \in possibilities : Close(x, word)}
    IN IF cand = {} THEN <<>>
       ELSE <<CHOOSE x \in cand : \A y \in cand : ~ScoreLess(x, y, word)>>

(***************************************************************************)
(* get_real_node_name(G, user_input)                                       *)
(***************************************************************************)
\* the first node of the sequence whose lower case is low, or None
FirstWithLower(nodes, low) ==
    IF \E i \in 1..Len(nodes) : Lower(nodes[i]) = low
    THEN nodes[CHOOSE i \in 1..Len(nodes) :
                  /\ Lower(nodes[i]) = low
                  /\ \A j \in 1..(i - 1) : Lower(nodes[j]) # low]
    ELSE None

\* mutant: the loop returns the lower-cased input instead of the node
ExactHitInput(node) == Lower(node)

\* what the exact-match loop returns for a node whose lower case is the input's
ExactHit(node) == node

get_real_node_name(g, user_input) ==
    LET low == Lower(user_input)
        exact == FirstWithLower(g.nodes, low)
    IN IF exact # None THEN ExactHit(exact)
       ELSE LET matches == GetCloseMatches(low, {Lower(g.nodes[i]) : i \in 1..Len(g.nodes)})
            IN IF matches # <<>> THEN FirstWithLower(g.nodes, matches[1]) ELSE None

(***************************************************************************)
(* load_graph: the networkx Graph as its node order, its adjacency order,  *)
(* one attribute record per unordered pair, and the row and side whose     *)
(* latitude, longitude and state columns a node carries.                   *)
(***************************************************************************)
EmptyGraph == [nodes |-> <<>>, adj |-> <<>>, attr |-> <<>>, nattr |-> <<>>]

NodeSet(g) == {g.nodes[i] : i \in 1..Len(g.nodes)}

EdgeKey(u, v) == {u, v}

Put(f, k, v) == [x \in (DOMAIN f) \cup {k} |-> IF x = k THEN v ELSE f[x]]

\* weight = dist + risk * 50
RiskFactor == 50
EdgeWeight(dist, risk) == dist + risk * RiskFactor

\* mutant: an edge already stored keeps its attributes
StoredAttrFirst(old, new) == old

\* the attribute dict of an edge after add_edge(src, dst, Distance=, Risk=, Weight=)
StoredAttr(old, new) == new

\* nx.Graph.add_edge(u, v, **attr)
AddEdge(g, u, v, attr) ==
    LET n1 == IF u \in NodeSet(g) THEN g.nodes ELSE Append(g.nodes, u)
        n2 == IF v \in {n1[i] : i \in 1..Len(n1)} THEN n1 ELSE Append(n1, v)
        a0 == [x \in {n2[i] : i \in 1..Len(n2)} |->
                 IF x \in DOMAIN g.adj THEN g.adj[x] ELSE <<>>]
        Has(s, x) == \E i \in 1..Len(s) : s[i] = x
        a1 == [a0 EXCEPT ![u] = IF Has(@, v) THEN @ ELSE Append(@, v)]
        a2 == [a1 EXCEPT ![v] = IF Has(@, u) THEN @ ELSE Append(@, u)]
        k  == EdgeKey(u, v)
    IN [nodes |-> n2,
        adj   |-> a2,
        attr  |-> Put(g.attr, k, IF k \in DOMAIN g.attr
                                 THEN StoredAttr(g.attr[k], attr) ELSE attr),
        nattr |-> [x \in {n2[i] : i \in 1..Len(n2)} |->
                     IF x \in DOMAIN g.nattr THEN g.nattr[x] ELSE None]]

\* one iteration of the loop over df.iterrows(): row number k of the dataset
AddRow(g, row, k) ==
    LET g1 == AddEdge(g, row.Source, row.Destination,
                      [Distance |-> row.Distance, Risk |-> row.Risk,
                       Weight |-> EdgeWeight(row.Distance, row.Risk)])
        na1 == [g1.nattr EXCEPT ![row.Source] = <<k, "Source">>]
        na2 == [na1 EXCEPT ![row.Destination] = <<k, "Destination">>]
    IN [g1 EXCEPT !.nattr = na2]

RECURSIVE load_graph(_)
load_graph(rs) ==
    IF rs = <<>> THEN EmptyGraph
    ELSE AddRow(load_graph(SubSeq(rs, 1, Len(rs) - 1)), rs[Len(rs)], Len(rs))

\* G.edges(data=True): each node in order, its neighbours in order, skipping the
\* nodes already done; every edge as <<u, v, attr>> seen from the node that yields it
RECURSIVE EdgesFrom(_, _)
EdgesFrom(g, i) ==
    IF i > Len(g.nodes) THEN <<>>
    ELSE LET n == g.nodes[i]
             seen == {g.nodes[j] : j \in 1..(i - 1)}
         IN SelectSeq([j \in 1..Len(g.adj[n]) |->
                         <<n, g.adj[n][j], g.attr[EdgeKey(n, g.adj[n][j])]>>],
                      LAMBDA e : e[2] \notin seen)
            \o EdgesFrom(g, i + 1)

EdgeList(g) == EdgesFrom(g, 1)

(***************************************************************************)
(* kruskal_mst                                                             *)
(***************************************************************************)
\* mutant: the edges are sorted by Distance
SortKeyDistance(e) == e[3].Distance

\* key=lambda e: e[2]['Weight']
SortKey(e) == e[3].Weight

\* sorted(): stable, ascending by key
RECURSIVE SortedBy(_)
SortedBy(es) ==
    IF es = <<>> THEN <<>>
    ELSE LET rest == SortedBy(SubSeq(es, 1, Len(es) - 1))
             e == es[Len(es)]
             p == Cardinality({i \in 1..Len(rest) : SortKey(rest[i]) <= SortKey(e)})
         IN SubSeq(rest, 1, p) \o <<e>> \o SubSeq(rest, p + 1, Len(rest))

\* mutant: the edges are taken in the order G.edges() yields them
UnsortedEdges(g) == EdgeList(g)

SortedEdges(g) == SortedBy(EdgeList(g))

\* parent = {n: n ...}; rank = {n: 0 ...}
InitParent(g) == [n \in NodeSet(g) |-> n]
InitRank(g) == [n \in NodeSet(g) |-> 0]

\* the value find(u) returns
RECURSIVE FindRoot(_, _)
FindRoot(p, u) == IF p[u] = u THEN u ELSE FindRoot(p, p[u])

\* the nodes find(u) visits before the root
RECURSIVE FindPath(_, _)
FindPath(p, u) == IF p[u] = u THEN {} ELSE {u} \cup FindPath(p, p[u])

\* mutant: find leaves every visited node pointing to itself
CompressedDetach(p, u) ==
    [x \in DOMAIN p |-> IF x \in FindPath(p, u) THEN x ELSE p[x]]

\* the parent map after find(u): every visited node points to the root
Compressed(p, u) ==
    [x \in DOMAIN p |-> IF x \in FindPath(p, u) THEN FindRoot(p, u) ELSE p[x]]

\* mutant: union links and returns True without comparing the two roots
UnionNoCheck(p, r, u, v) ==
    LET ru == FindRoot(p, u)
        rv == FindRoot(p, v)
    IN IF r[ru] < r[rv]
       THEN [parent |-> [p EXCEPT ![ru] = rv], rank |-> r, merged |-> TRUE]
       ELSE [parent |-> [p EXCEPT ![rv] = ru],
             rank |-> IF r[ru] = r[rv] THEN [r EXCEPT ![ru] = @ + 1] ELSE r,
             merged |-> TRUE]

\* union(u, v): the tables afterwards and the value returned
Union(p, r, u, v) ==
    LET p1 == Compressed(p, u)
        ru == FindRoot(p, u)
        p2 == Compressed(p1, v)
        rv == FindRoot(p1, v)
    IN IF ru = rv THEN [parent |-> p2, rank |-> r, merged |-> FALSE]
       ELSE IF r[ru] < r[rv]
            THEN [parent |-> [p2 EXCEPT ![ru] = rv], rank |-> r, merged |-> TRUE]
            ELSE [parent |-> [p2 EXCEPT ![rv] = ru],
                  rank |-> IF r[ru] = r[rv] THEN [r EXCEPT ![ru] = @ + 1] ELSE r,
                  merged |-> TRUE]

\* T = nx.Graph(); T.add_edge(u, v, **attr)
EmptyTree == [nodes |-> {}, attr |-> <<>>]
TreeAdd(t, u, v, attr) ==
    [nodes |-> t.nodes \cup {u, v}, attr |-> Put(t.attr, EdgeKey(u, v), attr)]

\* one iteration of "for u, v, attr in edges"
KruskalIter(st, e) ==
    LET un == Union(st.parent, st.rank, e[1], e[2])
    IN [parent |-> un.parent, rank |-> un.rank,
        T |-> IF un.merged THEN TreeAdd(st.T, e[1], e[2], e[3]) ELSE st.T]

RECURSIVE KruskalRun(_, _, _)
KruskalRun(st, es, i) ==
    IF i > Len(es) THEN st ELSE KruskalRun(KruskalIter(st, es[i]), es, i + 1)

\* kruskal_mst(G) run from start to end by one caller
kruskal_mst(g) ==
    KruskalRun([parent |-> InitParent(g), rank |-> InitRank(g), T |-> EmptyTree],
               SortedEdges(g), 1).T

(***************************************************************************)
(* nx.shortest_path(mst, src, dst, weight='Weight')                        *)
(***************************************************************************)
Neighbours(t, n) == {m \in t.nodes : EdgeKey(n, m) \in DOMAIN t.attr}

RECURSIVE SimplePaths(_, _, _)
SimplePaths(t, p, d) ==
    IF p[Len(p)] = d THEN {p}
    ELSE UNION {SimplePaths(t, Append(p, n), d) :
                  n \in Neighbours(t, p[Len(p)]) \ {p[i] : i \in 1..Len(p)}}

RECURSIVE PathSum(_, _, _, _)
PathSum(attr, p, field, i) ==
    IF i >= Len(p) THEN 0
    ELSE attr[EdgeKey(p[i], p[i + 1])][field] + PathSum(attr, p, field, i + 1)

\* the node list returned, or <<>> for NetworkXNoPath
ShortestPath(t, s, d) ==
    LET ps == SimplePaths(t, <<s>>, d)
    IN IF ps = {} THEN <<>>
       ELSE CHOOSE p \in ps :
              \A o \in ps : PathSum(t.attr, p, "Weight", 1) <= PathSum(t.attr, o, "Weight", 1)

(***************************************************************************)
(* get_corridor                                                            *)
(***************************************************************************)
\* mutant: parent and rank are module-level tables shared by every query
TablesShared(q) == "q1"

\* the union-find tables a query works on: locals of its own kruskal_mst call
Tables(q) == q

\* mutant: shortest_path searches G
SearchGraphFull(g, t) == [nodes |-> NodeSet(g), attr |-> g.attr]

\* the graph shortest_path searches: the forest, not G
SearchGraph(g, t) == t

\* "not src_input": the parameter is absent or empty
Missing(x) == x = None \/ x = <<>>

ErrorResponse(code, msg) ==
    [status |-> code, error |-> msg, path |-> <<>>, nodes |-> <<>>,
     total_distance |-> 0, total_risk |-> 0]

\* the entry appended for the step u -> v, read from G
PathEntry(g, u, v) ==
    [source |-> u, destination |-> v,
     distance |-> g.attr[EdgeKey(u, v)].Distance,
     risk |-> g.attr[EdgeKey(u, v)].Risk,
     source_state |-> g.nattr[u], destination_state |-> g.nattr[v]]

\* the 200 response assembled from node_list
OkResponse(g, node_list) ==
    [status |-> 200, error |-> <<>>,
     path |-> [i \in 1..(Len(node_list) - 1) |-> PathEntry(g, node_list[i], node_list[i + 1])],
     nodes |-> [n \in {node_list[i] : i \in 1..Len(node_list)} |-> g.nattr[n]],
     total_distance |-> PathSum(g.attr, node_list, "Distance", 1),
     total_risk |-> PathSum(g.attr, node_list, "Risk", 1)]

MsgMissing == <<"Missing source or destination">>
MsgNotFound == <<"Sanctuary not found. Check spelling.">>
MsgNoPath == <<"No path found">>

\* lines 99-140: what get_corridor answers once it holds the forest mst
Answer(g, mst, s, d) ==
    IF s \notin mst.nodes \/ d \notin mst.nodes THEN ErrorResponse(404, MsgNoPath)
    ELSE LET node_list == ShortestPath(SearchGraph(g, mst), s, d)
         IN IF node_list = <<>> THEN ErrorResponse(404, MsgNoPath)
            ELSE OkResponse(g, node_list)

\* get_corridor run from start to end by one caller
get_corridor(g, s_in, d_in) ==
    IF Missing(s_in) \/ Missing(d_in) THEN ErrorResponse(400, MsgMissing)
    ELSE LET s == get_real_node_name(g, s_in)
             d == get_real_node_name(g, d_in)
         IN IF s = None \/ d = None THEN ErrorResponse(404, MsgNotFound)
            ELSE Answer(g, kruskal_mst(g), s, d)

(***************************************************************************)
(* The state machine                                                       *)
(***************************************************************************)
NoResponse == ErrorResponse(0, <<>>)

Init ==
    /\ phase = "load"
    /\ rows = <<>>
    /\ G = EmptyGraph
    /\ pc = [q \in Queries |-> "idle"]
    /\ src_input = [q \in Queries |-> None]
    /\ dst_input = [q \in Queries |-> None]
    /\ src = [q \in Queries |-> None]
    /\ dst = [q \in Queries |-> None]
    /\ parent = [q \in Queries |-> <<>>]
    /\ rank = [q \in Queries |-> <<>>]
    /\ edges = [q \in Queries |-> <<>>]
    /\ idx = [q \in Queries |-> 1]
    /\ T = [q \in Queries |-> EmptyTree]
    /\ resp = [q \in Queries |-> NoResponse]

queryVars == <<pc, src_input, dst_input, src, dst, parent, rank, edges, idx, T, resp>>

\* load_graph, one row of the dataset: lines 22-37
LoadRow(row, max) ==
    /\ phase = "load"
    /\ Len(rows) < max
    /\ rows' = Append(rows, row)
    /\ G' = AddRow(G, row, Len(rows) + 1)
    /\ UNCHANGED <<phase, queryVars>>

\* load_graph returns (line 83) and the application serves requests
Serve ==
    /\ phase = "load"
    /\ phase' = "serve"
    /\ UNCHANGED <<rows, G, queryVars>>

\* get_corridor, lines 89-99 up to the tables and the sorted edges of kruskal_mst
Start(q, s, d) ==
    /\ phase = "serve"
    /\ pc[q] = "idle"
    /\ src_input' = [src_input EXCEPT ![q] = s]
    /\ dst_input' = [dst_input EXCEPT ![q] = d]
    /\ IF Missing(s) \/ Missing(d)
       THEN /\ resp' = [resp EXCEPT ![q] = ErrorResponse(400, MsgMissing)]
            /\ pc' = [pc EXCEPT ![q] = "done"]
            /\ UNCHANGED <<src, dst, parent, rank, edges, idx, T>>
       ELSE LET a == get_real_node_name(G, s)
                b == get_real_node_name(G, d)
            IN /\ src' = [src EXCEPT ![q] = a]
               /\ dst' = [dst EXCEPT ![q] = b]
               /\ IF a = None \/ b = None
                  THEN /\ resp' = [resp EXCEPT ![q] = ErrorResponse(404, MsgNotFound)]
                       /\ pc' = [pc EXCEPT ![q] = "done"]
                       /\ UNCHANGED <<parent, rank, edges, idx, T>>
                  ELSE /\ parent' = [parent EXCEPT ![Tables(q)] = InitParent(G)]
                       /\ rank' = [rank EXCEPT ![Tables(q)] = InitRank(G)]
                       /\ edges' = [edges EXCEPT ![q] = SortedEdges(G)]
                       /\ idx' = [idx EXCEPT ![q] = 1]
                       /\ T' = [T EXCEPT ![q] = EmptyTree]
                       /\ pc' = [pc EXCEPT ![q] = "kruskal"]
                       /\ UNCHANGED resp
    /\ UNCHANGED <<phase, rows, G>>

\* kruskal_mst, one iteration of the loop of lines 64-66
KruskalStep(q) ==
    /\ pc[q] = "kruskal"
    /\ idx[q] <= Len(edges[q])
    /\ LET st == KruskalIter([parent |-> parent[Tables(q)], rank |-> rank[Tables(q)],
                              T |-> T[q]], edges[q][idx[q]])
       IN /\ parent' = [parent EXCEPT ![Tables(q)] = st.parent]
          /\ rank' = [rank EXCEPT ![Tables(q)] = st.rank]
          /\ T' = [T EXCEPT ![q] = st.T]
    /\ idx' = [idx EXCEPT ![q] = @ + 1]
    /\ UNCHANGED <<phase, rows, G, pc, src_input, dst_input, src, dst, edges, resp>>

\* kruskal_mst has returned: lines 100-140
Respond(q) ==
    /\ pc[q] = "kruskal"
    /\ idx[q] > Len(edges[q])
    /\ resp' = [resp EXCEPT ![q] = Answer(G, T[q], src[q], dst[q])]
    /\ pc' = [pc EXCEPT ![q] = "done"]
    /\ UNCHANGED <<phase, rows, G, src_input, dst_input, src, dst, parent, rank, edges, idx, T>>

\* the response is sent, the locals of the call are gone and the worker takes
\* the next request
Return(q) ==
    /\ pc[q] = "done"
    /\ pc' = [pc EXCEPT ![q] = "idle"]
    /\ src_input' = [src_input EXCEPT ![q] = None]
    /\ dst_input' = [dst_input EXCEPT ![q] = None]
    /\ src' = [src EXCEPT ![q] = None]
    /\ dst' = [dst EXCEPT ![q] = None]
    /\ edges' = [edges EXCEPT ![q] = <<>>]
    /\ idx' = [idx EXCEPT ![q] = 1]
    /\ T' = [T EXCEPT ![q] = EmptyTree]
    /\ resp' = [resp EXCEPT ![q] = NoResponse]
    /\ parent' = [parent EXCEPT ![Tables(q)] = <<>>]
    /\ rank' = [rank EXCEPT ![Tables(q)] = <<>>]
    /\ UNCHANGED <<phase, rows, G>>

(***************************************************************************)
(* Datasets and requests                                                   *)
(***************************************************************************)
Name(ch) == <<ch>>

RowsOver(names, attrs) ==
    {[Source |-> s, Destination |-> d, Distance |-> a[1], Risk |-> a[2]] :
        s \in names, d \in names, a \in attrs}

Attrs == {<<10, 1>>, <<5, 4>>}

\* one worker; the corridors A-B, B-C, A-C and C-D and a row from A to itself,
\* each either long and safe or short and risky; requests with absent, empty,
\* known and unknown names
RowSet ==
    {r \in RowsOver({Name("A"), Name("B"), Name("C"), Name("D")}, Attrs) :
        <<r.Source[1], r.Destination[1]>>
          \in {<<"A", "B">>, <<"B", "C">>, <<"A", "C">>, <<"C", "D">>, <<"A", "A">>}}
Inputs == {None, <<>>, Name("a"), Name("c"), Name("x")}

Next ==
    \/ \E row \in RowSet : LoadRow(row, MaxRows)
    \/ Serve
    \/ \E s \in Inputs, d \in Inputs : Start("q1", s, d)
    \/ KruskalStep("q1")
    \/ Respond("q1")
    \/ Return("q1")

Spec == Init /\ [][Next]_vars

\* one worker asking for A; every row over three sanctuaries, in both
\* orientations and from a sanctuary to itself
GraphRowSet == RowsOver({Name("A"), Name("B"), Name("C")}, Attrs)
GraphInputs == {Name("a")}

NextGraphs ==
    \/ \E row \in GraphRowSet : LoadRow(row, MaxGraphRows)
    \/ Serve
    \/ \E s \in GraphInputs, d \in GraphInputs : Start("q1", s, d)
    \/ KruskalStep("q1")
    \/ Respond("q1")
    \/ Return("q1")

SpecGraphs == Init /\ [][NextGraphs]_vars

\* two workers at once
ConcRowSet == RowsOver({Name("A"), Name("C")}, Attrs)
ConcInputs == {Name("a"), Name("c"), Name("x")}

NextConcurrent ==
    \/ \E row \in ConcRowSet : LoadRow(row, MaxConcRows)
    \/ Serve
    \/ \E q \in Queries, s \in ConcInputs, d \in ConcInputs : Start(q, s, d)
    \/ \E q \in Queries : KruskalStep(q)
    \/ \E q \in Queries : Respond(q)
    \/ \E q \in Queries : Return(q)

SpecConcurrent == Init /\ [][NextConcurrent]_vars

\* one worker, sanctuaries whose names differ by case or by one letter,
\* corridors of one length and two risk levels
NameRowSet == RowsOver({<<"A", "b">>, <<"a", "b">>, <<"b", "c">>}, {<<5, 1>>, <<5, 4>>})
NameInputs == {<<"a", "b">>, <<"A", "b">>, <<"A", "B">>, <<"a", "b", "c">>,
               <<"b", "c">>, <<"b">>}

NextNames ==
    \/ \E row \in NameRowSet : LoadRow(row, MaxResolveRows)
    \/ Serve
    \/ \E s \in NameInputs, d \in NameInputs : Start("q1", s, d)
    \/ KruskalStep("q1")
    \/ Respond("q1")
    \/ Return("q1")

SpecNames == Init /\ [][NextNames]_vars

\* one worker, four sanctuaries, every corridor listed from its first end in
\* alphabetical order: forests deep enough for find to compress a path
ForestRowSet ==
    {r \in RowsOver({Name("A"), Name("B"), Name("C"), Name("D")}, Attrs) :
        StrLess(r.Source, r.Destination)}
ForestInputs == {Name("a")}

NextForest ==
    \/ \E row \in ForestRowSet : LoadRow(row, MaxForestRows)
    \/ Serve
    \/ \E s \in ForestInputs, d \in ForestInputs : Start("q1", s, d)
    \/ KruskalStep("q1")
    \/ Respond("q1")
    \/ Return("q1")

SpecForest == Init /\ [][NextForest]_vars

(***************************************************************************)
(* Graph theory used to state the properties                               *)
(***************************************************************************)
\* the nodes joined to the set s by the edges keys
RECURSIVE Closure(_, _)
Closure(keys, s) ==
    LET nxt == s \cup UNION {k \in keys : k \cap s # {}}
    IN IF nxt = s THEN s ELSE Closure(keys, nxt)

Reach(keys, u) == Closure(keys, {u})

NumComponents(nodes, keys) == Cardinality({Reach(keys, n) : n \in nodes})

\* no self-loop, and no edge whose ends stay joined without it
Acyclic(keys) ==
    \A k \in keys :
        /\ Cardinality(k) = 2
        /\ \A u \in k : ~(k \subseteq Reach(keys \ {k}, u))

RECURSIVE WeightSum(_, _)
WeightSum(attr, keys) ==
    IF keys = {} THEN 0
    ELSE LET k == CHOOSE k \in keys : TRUE
         IN attr[k].Weight + WeightSum(attr, keys \ {k})

\* the acyclic edge subsets of g joining exactly the pairs of nodes g joins
SpanningForests(g) ==
    {S \in SUBSET (DOMAIN g.attr) :
        /\ Acyclic(S)
        /\ \A n \in NodeSet(g) : Reach(S, n) = Reach(DOMAIN g.attr, n)}

\* kruskal_mst has returned to get_corridor, which has not yet answered
MstReturned(q) == pc[q] = "kruskal" /\ idx[q] > Len(edges[q])

RowKey(row) == EdgeKey(row.Source, row.Destination)

(***************************************************************************)
(* C1: the forest kruskal_mst returns has |V(G)| - c edges, c the number   *)
(* of connected components of G, and contains no cycle.                    *)
(***************************************************************************)
C1_ForestSize ==
    \A q \in Queries :
        MstReturned(q) =>
            /\ Cardinality(DOMAIN T[q].attr)
                 = Len(G.nodes) - NumComponents(NodeSet(G), DOMAIN G.attr)
            /\ Acyclic(DOMAIN T[q].attr)

\* G is the triangle A, B, C: one of its edges closes a cycle and is left out
C1_Witness ==
    /\ MstReturned("q1")
    /\ Cardinality({k \in DOMAIN G.attr : Cardinality(k) = 2}) = 3
    /\ Cardinality(DOMAIN T["q1"].attr) = 2

(***************************************************************************)
(* C2: the forest returned is a spanning forest of G, and no spanning      *)
(* forest of G has a smaller total Weight.                                 *)
(***************************************************************************)
C2_MinimumWeight ==
    \A q \in Queries :
        MstReturned(q) =>
            /\ DOMAIN T[q].attr \in SpanningForests(G)
            /\ \A S \in SpanningForests(G) :
                  WeightSum(G.attr, DOMAIN T[q].attr) <= WeightSum(G.attr, S)

\* G has a spanning forest heavier than the one returned
C2_Witness ==
    /\ MstReturned("q1")
    /\ \E S \in SpanningForests(G) :
          WeightSum(G.attr, DOMAIN T["q1"].attr) < WeightSum(G.attr, S)

(***************************************************************************)
(* C3: every node of G is a node of the forest kruskal_mst returns, so the *)
(* test "src not in mst or dst not in mst" is never true.                  *)
(***************************************************************************)
C3_ForestHoldsEveryNode ==
    \A q \in Queries :
        MstReturned(q) =>
            /\ NodeSet(G) \subseteq T[q].nodes
            /\ src[q] \in T[q].nodes /\ dst[q] \in T[q].nodes

(***************************************************************************)
(* C4: G holds one edge per unordered pair of nodes, and its Distance,     *)
(* Risk and Weight are those of the last row naming the pair, in either    *)
(* orientation.                                                            *)
(***************************************************************************)
LastRowOf(k) ==
    rows[CHOOSE i \in 1..Len(rows) :
            RowKey(rows[i]) = k /\ \A j \in (i + 1)..Len(rows) : RowKey(rows[j]) # k]

\* C4: each unordered pair is stored once, with the attributes of its last row
C4_LastWriteWins ==
    (\A q \in Queries : pc[q] = "idle") =>
    /\ DOMAIN G.attr = {RowKey(rows[i]) : i \in 1..Len(rows)}
    /\ \A i, j \in 1..Len(EdgeList(G)) :
          i # j => EdgeKey(EdgeList(G)[i][1], EdgeList(G)[i][2])
                     # EdgeKey(EdgeList(G)[j][1], EdgeList(G)[j][2])
    /\ \A k \in DOMAIN G.attr :
          G.attr[k] = [Distance |-> LastRowOf(k).Distance, Risk |-> LastRowOf(k).Risk,
                       Weight |-> LastRowOf(k).Distance + LastRowOf(k).Risk * 50]

\* a pair named by two rows, in opposite orientations and with different attributes
C4_Witness ==
    \E i, j \in 1..Len(rows) :
        /\ i < j
        /\ rows[i].Source = rows[j].Destination
        /\ rows[i].Destination = rows[j].Source
        /\ rows[i].Source # rows[i].Destination
        /\ rows[i].Distance # rows[j].Distance
        /\ rows[i].Risk # rows[j].Risk
        /\ G = load_graph(rows)

(***************************************************************************)
(* C5: a query ends in 400 when an input is absent or empty, else in 404   *)
(* "Sanctuary not found" when a name does not resolve, else in 404 "No     *)
(* path found" when the two nodes lie in different components of G, else   *)
(* in 200.                                                                 *)
(***************************************************************************)
C5_OutcomeOrder ==
    \A q \in Queries :
        pc[q] = "done" =>
            IF Missing(src_input[q]) \/ Missing(dst_input[q])
            THEN resp[q].status = 400 /\ resp[q].error = MsgMissing
            ELSE IF get_real_node_name(G, src_input[q]) = None
                    \/ get_real_node_name(G, dst_input[q]) = None
            THEN resp[q].status = 404 /\ resp[q].error = MsgNotFound
            ELSE IF get_real_node_name(G, dst_input[q])
                      \notin Reach(DOMAIN G.attr, get_real_node_name(G, src_input[q]))
            THEN resp[q].status = 404 /\ resp[q].error = MsgNoPath
            ELSE resp[q].status = 200

(***************************************************************************)
(* C6: on a 200 response the path is a chain of edges of the forest from   *)
(* the resolved source to the resolved destination, visits no node twice,  *)
(* and total_distance and total_risk are the sums of G's Distance and Risk *)
(* over its edges; the three-row example answers [A->B, B->C], 20, 2.      *)
(***************************************************************************)
ExampleRows ==
    <<[Source |-> Name("A"), Destination |-> Name("B"), Distance |-> 10, Risk |-> 1],
      [Source |-> Name("B"), Destination |-> Name("C"), Distance |-> 10, Risk |-> 1],
      [Source |-> Name("A"), Destination |-> Name("C"), Distance |-> 5, Risk |-> 4]>>

RECURSIVE EntrySum(_, _, _)
EntrySum(path, field, i) ==
    IF i > Len(path) THEN 0
    ELSE G.attr[EdgeKey(path[i].source, path[i].destination)][field]
           + EntrySum(path, field, i + 1)

ExampleQuery(q) ==
    /\ pc[q] = "done"
    /\ rows = ExampleRows
    /\ src_input[q] = Name("a")
    /\ dst_input[q] = Name("c")

\* C6: a 200 response is a simple chain of forest edges from src to dst with
\* G's sums, and the three-row example answers [A->B, B->C], 20, 2
C6_PathInForest ==
    \A q \in Queries :
        /\ (pc[q] = "done" /\ resp[q].status = 200) =>
              LET p == resp[q].path
                  n == Len(p)
              IN /\ n = 0 => src[q] = dst[q]
                 /\ n > 0 => p[1].source = src[q] /\ p[n].destination = dst[q]
                 /\ \A i \in 1..(n - 1) : p[i].destination = p[i + 1].source
                 /\ \A i \in 1..n :
                       EdgeKey(p[i].source, p[i].destination) \in DOMAIN T[q].attr
                 /\ Cardinality({src[q]} \cup {p[i].destination : i \in 1..n}) = n + 1
                 /\ resp[q].total_distance = EntrySum(p, "Distance", 1)
                 /\ resp[q].total_risk = EntrySum(p, "Risk", 1)
        /\ ExampleQuery(q) =>
              /\ resp[q].status = 200
              /\ [i \in 1..Len(resp[q].path) |->
                    <<resp[q].path[i].source, resp[q].path[i].destination>>]
                   = <<(<<Name("A"), Name("B")>>), (<<Name("B"), Name("C")>>)>>
              /\ resp[q].total_distance = 20
              /\ resp[q].total_risk = 2

\* the example of the three rows, asked in lower case, has been answered
C6_Witness == ExampleQuery("q1") /\ resp["q1"].status = 200

(***************************************************************************)
(* C7 as stated: resolving the name of a node of G returns that name.      *)
(***************************************************************************)
C7_ResolvesToItself ==
    \A q \in Queries :
        (pc[q] # "idle" /\ ~Missing(src_input[q]) /\ ~Missing(dst_input[q])) =>
            /\ src_input[q] \in NodeSet(G) => src[q] = src_input[q]
            /\ dst_input[q] \in NodeSet(G) => dst[q] = dst_input[q]

(***************************************************************************)
(* C7 as amended: resolving the name n of a node of G returns the first    *)
(* node of G, in G's node order, whose lower case is that of n; it is n    *)
(* itself unless an earlier node differs from n only by letter case; and   *)
(* resolving the result of any successful resolution returns it again.     *)
(***************************************************************************)
FirstOfCase(n) ==
    G.nodes[CHOOSE i \in 1..Len(G.nodes) :
               /\ Lower(G.nodes[i]) = Lower(n)
               /\ \A j \in 1..(i - 1) : Lower(G.nodes[j]) # Lower(n)]

ResolvedAsAmended(input, result) ==
    /\ input \in NodeSet(G) =>
          /\ result = FirstOfCase(input)
          /\ (\A m \in NodeSet(G) : Lower(m) = Lower(input) => m = input) => result = input
    /\ result # None =>
          /\ result \in NodeSet(G)
          /\ get_real_node_name(G, result) = result

\* C7 as amended: a node name resolves to the first node of its lower case,
\* and a resolved name resolves to itself
C7_ResolvesToFirstOfCase ==
    \A q \in Queries :
        (pc[q] # "idle" /\ ~Missing(src_input[q]) /\ ~Missing(dst_input[q])) =>
            /\ ResolvedAsAmended(src_input[q], src[q])
            /\ ResolvedAsAmended(dst_input[q], dst[q])

\* the name of a node is resolved to an earlier node that differs from it by
\* case, and a misspelt name is resolved by similarity
C7_Witness ==
    /\ pc["q1"] # "idle"
    /\ src_input["q1"] \in NodeSet(G)
    /\ src["q1"] # src_input["q1"]
    /\ src["q1"] \in NodeSet(G)
    /\ Lower(dst_input["q1"]) \notin {Lower(m) : m \in NodeSet(G)}
    /\ dst["q1"] \in NodeSet(G)

(***************************************************************************)
(* C8: once load_graph has returned no query changes G, each query's       *)
(* union-find tables and forest are what its own kruskal_mst call has      *)
(* computed so far, and each response is the one the query gives alone.    *)
(***************************************************************************)
C8_QueriesIndependent ==
    /\ G = load_graph(rows)
    /\ \A q \in Queries :
          /\ pc[q] = "kruskal" =>
                [parent |-> parent[q], rank |-> rank[q], T |-> T[q]]
                  = KruskalRun([parent |-> InitParent(G), rank |-> InitRank(G),
                                T |-> EmptyTree],
                               SubSeq(SortedEdges(G), 1, idx[q] - 1), 1)
          /\ pc[q] = "done" => resp[q] = get_corridor(G, src_input[q], dst_input[q])

\* one query has answered 200 with a corridor while the other is inside its loop
C8_Witness ==
    /\ pc["q1"] = "done"
    /\ resp["q1"].status = 200
    /\ Len(resp["q1"].path) > 0
    /\ pc["q2"] = "kruskal"
    /\ idx["q2"] > 1
    /\ idx["q2"] <= Len(edges["q2"])

(***************************************************************************)
(* C9: every edge of G has Weight = Distance + Risk * 50, kruskal_mst      *)
(* takes the edges in non-decreasing Weight, and of two edges of equal     *)
(* Distance the one of lower Risk comes strictly first.                    *)
(***************************************************************************)
C9_WeightOrder ==
    /\ \A k \in DOMAIN G.attr : G.attr[k].Weight = G.attr[k].Distance + G.attr[k].Risk * 50
    /\ \A q \in Queries :
          pc[q] = "kruskal" =>
              /\ Len(edges[q]) = Cardinality(DOMAIN G.attr)
              /\ \A i, j \in 1..Len(edges[q]) :
                    /\ i < j => edges[q][i][3].Weight <= edges[q][j][3].Weight
                    /\ (/\ edges[q][i][3].Distance = edges[q][j][3].Distance
                        /\ edges[q][i][3].Risk < edges[q][j][3].Risk) => i < j

\* two edges of equal Distance that G.edges() yields with the riskier one first
C9_Witness ==
    /\ pc["q1"] = "kruskal"
    /\ \E i, j \in 1..Len(EdgeList(G)) :
          /\ i < j
          /\ EdgeList(G)[i][3].Distance = EdgeList(G)[j][3].Distance
          /\ EdgeList(G)[i][3].Risk > EdgeList(G)[j][3].Risk

(***************************************************************************)
(* C10: throughout the loop of kruskal_mst two nodes of G have the same    *)
(* union-find representative iff the edges added to T so far connect them, *)
(* and the parent map has no cycle but a root pointing to itself; hence a  *)
(* set is merged only by an edge that joins T and is never split.          *)
(***************************************************************************)
\* the node reached from u by k parent links
RECURSIVE Up(_, _, _)
Up(p, u, k) == IF k = 0 THEN u ELSE Up(p, p[u], k - 1)

NoParentCycle(p) ==
    \A u \in DOMAIN p : LET r == Up(p, u, Cardinality(DOMAIN p)) IN p[r] = r

\* C10: same representative iff connected in T, and no cycle in the parent map
C10_UnionFindMatchesForest ==
    \A q \in Queries :
        pc[q] = "kruskal" =>
            /\ DOMAIN parent[q] = NodeSet(G)
            /\ NoParentCycle(parent[q])
            /\ \A u, v \in NodeSet(G) :
                  FindRoot(parent[q], u) = FindRoot(parent[q], v)
                    <=> v \in Reach(DOMAIN T[q].attr, u)

\* a tree of rank 2 every node of which points at the root: find has
\* compressed the path that union by rank had made two links long
C10_Witness ==
    /\ pc["q1"] = "kruskal"
    /\ \E r \in NodeSet(G) :
          /\ rank["q1"][r] = 2
          /\ \A u \in NodeSet(G) : parent["q1"][u] = r

====
